---- MODULE Spec2Model ----
(***************************************************************************)
(* Heading-anchor script of the blog (static/js/custom.js).                *)
(*                                                                         *)
(* The page is a list of heading elements in document order.  The script   *)
(* registers addAnchors as a load listener on window; each dispatch of     *)
(* load on window invokes it, and it then runs to completion: it queries   *)
(* "h1[id], h2[id], h3[id]" and calls addAnchor on every element of the    *)
(* result, one statement of addAnchor per step of the model.               *)
(***************************************************************************)
EXTENDS Naturals, Sequences, FiniteSets

\* ---------------------------------------------------------------- bounds
MaxHeadings == 2      \* headings the page ever holds
MaxLoads == 2         \* dispatches of load on window in one page view

\* ------------------------------------------------------- the page's input
HeadingTags == {"h1", "h2", "h3", "h4", "h5", "h6"}
IdValues == {"", "intro"}
\* the id attribute of a heading of the page: absent, empty or a name
IdAttrs == {{}} \cup {{<<"id", v>>} : v \in IdValues}
TextNode == [tag |-> "#text", nid |-> 0, attrs |-> {}, classList |-> <<>>,
             children |-> <<>>]
Contents == {<<TextNode>>}
\* the functions the script declares
ScriptFunctions == {"addAnchor", "addAnchors"}

\* ------------------------------------------------------------ DOM helpers
HasAttribute(e, name) == \E p \in e.attrs : p[1] = name

GetAttribute(e, name) == (CHOOSE p \in e.attrs : p[1] = name)[2]

\* Element.setAttribute: replaces the attribute's value or adds it
SetAttribute(e, name, value) ==
    [e EXCEPT !.attrs = {p \in e.attrs : p[1] # name} \cup {<<name, value>>}]

\* the reflected id property: the attribute's value, "" when it is absent
IdOf(e) == IF HasAttribute(e, "id") THEN GetAttribute(e, "id") ELSE ""

Contains(seq, x) == \E k \in 1..Len(seq) : seq[k] = x

\* DOMTokenList.add: an ordered set, a token it holds is not added again
ClassListAdd(e, token) ==
    IF Contains(e.classList, token) THEN e
    ELSE [e EXCEPT !.classList = Append(e.classList, token)]

\* mutation: the node replaces the content (replaceChildren)
Prepend_Replace(e, node) == [e EXCEPT !.children = <<node>>]

\* mutation: the node is appended (appendChild) instead of prepended
Prepend_Append(e, node) == [e EXCEPT !.children = e.children \o <<node>>]

\* ParentNode.prepend: the node becomes the first child, the others follow
Prepend(e, node) == [e EXCEPT !.children = <<node>> \o e.children]

\* document.createElement("a"): a new, detached, empty element
CreateElement(tagName, n) ==
    [tag |-> tagName, nid |-> n, attrs |-> {}, classList |-> <<>>,
     children |-> <<>>]

\* mutation: the selector "h1, h2, h3[id]", [id] on the last item only
MatchesSelector_IdOnLast(e) ==
    e.tag \in {"h1", "h2"} \/ (e.tag = "h3" /\ HasAttribute(e, "id"))

\* mutation: the selector "[id]", any element that carries an id
MatchesSelector_AnyTag(e) == HasAttribute(e, "id")

\* mutation: the selector "h1, h2, h3", the attribute test left out
MatchesSelector_NoId(e) == e.tag \in {"h1", "h2", "h3"}

\* mutation: a guard against a second anchor, "hN[id]:not(.has-anchor)"
MatchesSelector_NotAnchored(e) ==
    /\ e.tag \in {"h1", "h2", "h3"}
    /\ HasAttribute(e, "id")
    /\ ~Contains(e.classList, "has-anchor")

\* the selector list "h1[id], h2[id], h3[id]" against one element
MatchesSelector(e) == e.tag \in {"h1", "h2", "h3"} /\ HasAttribute(e, "id")

\* mutation: the result list is built in reverse document order
RECURSIVE SelectFrom_Reverse(_, _)
SelectFrom_Reverse(d, k) ==
    IF k > Len(d) THEN <<>>
    ELSE SelectFrom_Reverse(d, k + 1)
            \o (IF MatchesSelector(d[k]) THEN <<k>> ELSE <<>>)

RECURSIVE SelectFrom(_, _)
SelectFrom(d, k) ==
    IF k > Len(d) THEN <<>>
    ELSE (IF MatchesSelector(d[k]) THEN <<k>> ELSE <<>>) \o SelectFrom(d, k + 1)

\* document.querySelectorAll: the matching elements (their positions in the
\* page), in document order; the list is static
QuerySelectorAll(d) == SelectFrom(d, 1)

\* EventTarget.addEventListener: a callback already listed is not added again
AddEventListener(ls, callback) ==
    IF Contains(ls, callback) THEN ls ELSE Append(ls, callback)

\* ------------------------------------------------------------------ state
VARIABLES
    dom,       \* the page's headings, in document order
    listeners, \* window's listeners for the load event
    evaluated, \* the script has been evaluated
    phase,     \* "open" while the page is viewed, then "ended"
    loads,     \* load events dispatched on window so far
    pc,        \* the script's position: "idle", or a line of custom.js
    headings,  \* addAnchors' local: the NodeList of the query
    idx,       \* forEach's position in headings (1-based)
    heading,   \* addAnchor's parameter: position of the heading in dom
    anchor,    \* addAnchor's local: the element it created
    created,   \* elements created by the script so far
    runs,      \* invocations of addAnchors so far
    visited,   \* headings addAnchor was called on in the current run
    before,    \* the page as it was when the current run started
    seen,      \* per h1-h3 heading with an id: loads dispatched since the
               \* script was evaluated while the heading was in the page
    globals    \* names bound on the global object by the page's scripts

vars == <<dom, listeners, evaluated, phase, loads, pc, headings, idx, heading,
          anchor, created, runs, visited, before, seen, globals>>

script == <<headings, idx, heading, anchor, created, visited>>

NoNode == CreateElement("", 0)

Init ==
    /\ dom = <<>>
    /\ listeners = <<>>
    /\ evaluated = FALSE
    /\ phase = "open"
    /\ loads = 0
    /\ pc = "idle"
    /\ headings = <<>>
    /\ idx = 0
    /\ heading = 0
    /\ anchor = NoNode
    /\ created = 0
    /\ runs = 0
    /\ visited = <<>>
    /\ before = <<>>
    /\ seen = <<>>
    /\ globals = {}

\* ------------------------------------------------------------ environment
\* the parser, or another script, adds a heading to the page
AddHeading ==
    /\ phase = "open" /\ pc = "idle"
    /\ Len(dom) < MaxHeadings
    /\ \E t \in HeadingTags, a \in IdAttrs, c \in Contents :
          dom' = Append(dom, [tag |-> t, nid |-> 0, attrs |-> a,
                              classList |-> <<>>, children |-> c])
    /\ seen' = Append(seen, 0)
    /\ UNCHANGED <<globals,
                   listeners, evaluated, phase, loads, pc, script, runs, before>>

\* the page view ends (navigation, tab closed)
EndPageView ==
    /\ phase = "open" /\ pc = "idle"
    /\ phase' = "ended"
    /\ UNCHANGED <<seen, globals,
                   dom, listeners, evaluated, loads, pc, script, runs, before>>

\* mutation: the listener is registered with {once: true} and is removed
\* when it is invoked
DispatchLoad_Once ==
    /\ phase = "open" /\ pc = "idle"
    /\ loads < MaxLoads
    /\ loads' = loads + 1
    /\ seen' = [k \in 1..Len(seen) |->
                  IF evaluated /\ dom[k].tag \in {"h1", "h2", "h3"}
                               /\ HasAttribute(dom[k], "id")
                  THEN seen[k] + 1 ELSE seen[k]]
    /\ IF Contains(listeners, "addAnchors")
       THEN /\ pc' = "L11"
            /\ runs' = runs + 1
            /\ before' = dom
            /\ visited' = <<>>
            /\ listeners' = <<>>
       ELSE UNCHANGED <<pc, runs, before, visited, listeners>>
    /\ UNCHANGED <<globals,
                   dom, evaluated, phase, headings, idx, heading, anchor,
                   created>>

\* load is dispatched on window: every listener registered for it is invoked
DispatchLoad ==
    /\ phase = "open" /\ pc = "idle"
    /\ loads < MaxLoads
    /\ loads' = loads + 1
    /\ seen' = [k \in 1..Len(seen) |->
                  IF evaluated /\ dom[k].tag \in {"h1", "h2", "h3"}
                               /\ HasAttribute(dom[k], "id")
                  THEN seen[k] + 1 ELSE seen[k]]
    /\ IF Contains(listeners, "addAnchors")
       THEN /\ pc' = "L11"
            /\ runs' = runs + 1
            /\ before' = dom
            /\ visited' = <<>>
       ELSE UNCHANGED <<pc, runs, before, visited>>
    /\ UNCHANGED <<globals,
                   dom, listeners, evaluated, phase, headings, idx, heading,
                   anchor, created>>

\* other code of the page calls one of the script's functions by its name:
\* a name bound on the global object is called; any other throws a
\* ReferenceError in the caller and nothing of the script or the page changes
OtherScriptCall ==
    /\ phase = "open" /\ pc = "idle"
    /\ \E name \in ScriptFunctions :
          IF name \in globals
          THEN /\ before' = dom
               /\ visited' = <<>>
               /\ IF name = "addAnchors"
                  THEN /\ pc' = "L11"
                       /\ runs' = runs + 1
                       /\ UNCHANGED <<heading, idx>>
                  ELSE /\ Len(dom) > 0
                       /\ pc' = "L3"
                       /\ heading' \in 1..Len(dom)
                       /\ idx' = Len(headings) + 1
                       /\ UNCHANGED runs
          ELSE UNCHANGED <<pc, runs, before, visited, heading, idx>>
    /\ UNCHANGED <<dom, listeners, evaluated, phase, loads, headings, anchor,
                   created, seen, globals>>

\* ----------------------------------------------------------------- script
\* mutation: the functions are declared at the top level of the script, not
\* inside a function expression, and become properties of the global object
EvalScript_TopLevel ==
    /\ phase = "open" /\ pc = "idle"
    /\ ~evaluated
    /\ evaluated' = TRUE
    /\ listeners' = AddEventListener(listeners, "addAnchors")
    /\ globals' = globals \cup ScriptFunctions
    /\ UNCHANGED <<dom, phase, loads, pc, script, runs, before, seen>>

\* mutation: line 15 reads addEventListener("load", addAnchors()): the
\* routine is called while the script is evaluated and nothing is registered
EvalScript_Invokes ==
    /\ phase = "open" /\ pc = "idle"
    /\ ~evaluated
    /\ evaluated' = TRUE
    /\ pc' = "L11"
    /\ runs' = runs + 1
    /\ before' = dom
    /\ visited' = <<>>
    /\ UNCHANGED <<seen, globals,
                   dom, listeners, phase, loads, headings, idx, heading,
                   anchor, created>>

\* mutation: line 15 first tests document.readyState and calls addAnchors
\* at once when the page has already loaded
EvalScript_ReadyState ==
    /\ phase = "open" /\ pc = "idle"
    /\ ~evaluated
    /\ evaluated' = TRUE
    /\ IF loads > 0
       THEN /\ pc' = "L11"
            /\ runs' = runs + 1
            /\ before' = dom
            /\ visited' = <<>>
            /\ UNCHANGED listeners
       ELSE /\ listeners' = AddEventListener(listeners, "addAnchors")
            /\ UNCHANGED <<pc, runs, before, visited>>
    /\ UNCHANGED <<seen, globals,
                   dom, phase, loads, headings, idx, heading, anchor, created>>

\* lines 1-16: the function expression is evaluated; line 15 registers
EvalScript ==
    /\ phase = "open" /\ pc = "idle"
    /\ ~evaluated
    /\ evaluated' = TRUE
    /\ listeners' = AddEventListener(listeners, "addAnchors")
    /\ UNCHANGED <<seen, globals,
                   dom, phase, loads, pc, script, runs, before>>

\* line 11: var headings = document.querySelectorAll(...)
Query ==
    /\ pc = "L11"
    /\ headings' = QuerySelectorAll(dom)
    /\ idx' = 1
    /\ pc' = "L12"
    /\ UNCHANGED <<seen, globals,
                   dom, listeners, evaluated, phase, loads, heading, anchor,
                   created, runs, visited, before>>

\* mutation: every round of the loop takes the first element of the list
ForEach_First ==
    /\ pc = "L12"
    /\ IF idx <= Len(headings)
       THEN /\ heading' = headings[1]
            /\ visited' = Append(visited, headings[1])
            /\ idx' = idx + 1
            /\ pc' = "L3"
       ELSE /\ pc' = "L13"
            /\ UNCHANGED <<heading, visited, idx>>
    /\ UNCHANGED <<seen, globals,
                   dom, listeners, evaluated, phase, loads, headings, anchor,
                   created, runs, before>>

\* mutation: the callback looks its heading up again by id
\* (document.getElementById), which gives the first element with that id
ForEach_ById ==
    /\ pc = "L12"
    /\ IF idx <= Len(headings)
       THEN /\ heading' = CHOOSE k \in 1..Len(dom) :
                             /\ IdOf(dom[k]) = IdOf(dom[headings[idx]])
                             /\ \A j \in 1..(k - 1) :
                                   IdOf(dom[j]) # IdOf(dom[headings[idx]])
            /\ visited' = Append(visited, headings[idx])
            /\ idx' = idx + 1
            /\ pc' = "L3"
       ELSE /\ pc' = "L13"
            /\ UNCHANGED <<heading, visited, idx>>
    /\ UNCHANGED <<seen, globals,
                   dom, listeners, evaluated, phase, loads, headings, anchor,
                   created, runs, before>>

\* line 12: headings.forEach(addAnchor), one element per step
ForEach ==
    /\ pc = "L12"
    /\ IF idx <= Len(headings)
       THEN /\ heading' = headings[idx]
            /\ visited' = Append(visited, headings[idx])
            /\ idx' = idx + 1
            /\ pc' = "L3"
       ELSE /\ pc' = "L13"
            /\ UNCHANGED <<heading, visited, idx>>
    /\ UNCHANGED <<seen, globals,
                   dom, listeners, evaluated, phase, loads, headings, anchor,
                   created, runs, before>>

\* line 3: var anchor = document.createElement("a")
Create ==
    /\ pc = "L3"
    /\ created' = created + 1
    /\ anchor' = CreateElement("a", created + 1)
    /\ pc' = "L4"
    /\ UNCHANGED <<seen, globals,
                   dom, listeners, evaluated, phase, loads, headings, idx,
                   heading, runs, visited, before>>

\* mutation: line 4 is missing, the heading is never marked
MarkHeading_Omitted ==
    /\ pc = "L4"
    /\ pc' = "L5"
    /\ UNCHANGED <<seen, globals,
                   dom, listeners, evaluated, phase, loads, script, runs, before>>

\* line 4: heading.classList.add("has-anchor")
MarkHeading ==
    /\ pc = "L4"
    /\ dom' = [dom EXCEPT ![heading] = ClassListAdd(dom[heading], "has-anchor")]
    /\ pc' = "L5"
    /\ UNCHANGED <<seen, globals,
                   listeners, evaluated, phase, loads, script, runs, before>>

\* mutation: line 5 adds the link's class to the heading, not to the link
MarkAnchor_OnHeading ==
    /\ pc = "L5"
    /\ dom' = [dom EXCEPT ![heading] = ClassListAdd(dom[heading], "heading-anchor")]
    /\ pc' = "L6"
    /\ UNCHANGED <<seen, globals,
                   listeners, evaluated, phase, loads, script, runs, before>>

\* line 5: anchor.classList.add("heading-anchor")
MarkAnchor ==
    /\ pc = "L5"
    /\ anchor' = ClassListAdd(anchor, "heading-anchor")
    /\ pc' = "L6"
    /\ UNCHANGED <<seen, globals,
                   dom, listeners, evaluated, phase, loads, headings, idx,
                   heading, created, runs, visited, before>>

\* mutation: line 6 is missing, the link gets no href
SetHref_Omitted ==
    /\ pc = "L6"
    /\ pc' = "L7"
    /\ UNCHANGED <<seen, globals,
                   dom, listeners, evaluated, phase, loads, script, runs, before>>

\* mutation: line 6 sets the attribute on the heading, not on the link
SetHref_OnHeading ==
    /\ pc = "L6"
    /\ dom' = [dom EXCEPT ![heading] =
                  SetAttribute(dom[heading], "href", "#" \o IdOf(dom[heading]))]
    /\ pc' = "L7"
    /\ UNCHANGED <<seen, globals,
                   listeners, evaluated, phase, loads, script, runs, before>>

\* line 6: anchor.setAttribute("href", "#" + heading.id)
SetHref ==
    /\ pc = "L6"
    /\ anchor' = SetAttribute(anchor, "href", "#" \o IdOf(dom[heading]))
    /\ pc' = "L7"
    /\ UNCHANGED <<seen, globals,
                   dom, listeners, evaluated, phase, loads, headings, idx,
                   heading, created, runs, visited, before>>

\* mutation: the callback is asynchronous; after the first heading the
\* handler gives control back and the rest of the list is not processed
PrependAnchor_Yield ==
    /\ pc = "L7"
    /\ dom' = [dom EXCEPT ![heading] = Prepend(dom[heading], anchor)]
    /\ pc' = "idle"
    /\ UNCHANGED <<seen, globals,
                   listeners, evaluated, phase, loads, script, runs, before>>

\* line 7: heading.prepend(anchor); line 8: addAnchor returns to forEach
PrependAnchor ==
    /\ pc = "L7"
    /\ dom' = [dom EXCEPT ![heading] = Prepend(dom[heading], anchor)]
    /\ pc' = "L12"
    /\ UNCHANGED <<seen, globals,
                   listeners, evaluated, phase, loads, script, runs, before>>

\* line 13: addAnchors returns to the dispatcher
Return ==
    /\ pc = "L13"
    /\ pc' = "idle"
    /\ UNCHANGED <<seen, globals,
                   dom, listeners, evaluated, phase, loads, script, runs, before>>

Next ==
    \/ AddHeading
    \/ EndPageView
    \/ DispatchLoad
    \/ OtherScriptCall
    \/ EvalScript
    \/ Query
    \/ ForEach
    \/ Create
    \/ MarkHeading
    \/ MarkAnchor
    \/ SetHref
    \/ PrependAnchor
    \/ Return

Spec == Init /\ [][Next]_vars

\* a statement of the running handler: the engine executes the handler it
\* has invoked until the handler returns
ScriptStep ==
    \/ Query
    \/ ForEach
    \/ Create
    \/ MarkHeading
    \/ MarkAnchor
    \/ SetHref
    \/ PrependAnchor
    \/ Return

FairSpec == Spec /\ WF_vars(ScriptStep)

\* ------------------------------------------------------ properties: terms
\* addAnchors has run: the last run is at its return, or has returned
HasRun == runs > 0 /\ pc \in {"L13", "idle"}

Level123(e) == e.tag \in {"h1", "h2", "h3"}
Level456(e) == e.tag \in {"h4", "h5", "h6"}
IdPresent(e) == \E p \in e.attrs : p[1] = "id"
NonEmptyId(e) == \E p \in e.attrs : p[1] = "id" /\ p[2] # ""
Links(e) == {k \in 1..Len(e.children) : e.children[k].tag = "a"}
Untouched(e) == e.classList = <<>> /\ Links(e) = {}

\* C1: after a run, every h1-h3 with a non-empty id that was in the page when
\* the run started has a link as its first child, with href "#" + its id
C1_FirstChildIsAnchor ==
    HasRun =>
        \A k \in 1..Len(before) :
            (Level123(before[k]) /\ NonEmptyId(before[k])) =>
                /\ dom[k].children # <<>>
                /\ dom[k].children[1].tag = "a"
                /\ dom[k].children[1].attrs
                     = {<<"href", "#" \o GetAttribute(before[k], "id")>>}

C1_Witness ==
    /\ pc = "L13"
    /\ \E k \in 1..Len(before) :
          /\ before[k].tag = "h2"
          /\ before[k].attrs = {<<"id", "intro">>}
          /\ dom[k].children[1].attrs = {<<"href", "#intro">>}

\* C2: a heading without an id attribute is never changed by a run, whatever
\* its level: it equals what it was when the run started, and it carries no
\* class and no link
C2_NoIdUnmodified ==
    /\ \A k \in 1..Len(before) : ~IdPresent(before[k]) => dom[k] = before[k]
    /\ \A k \in 1..Len(dom) : ~IdPresent(dom[k]) => Untouched(dom[k])

C2_Witness ==
    /\ pc = "L13"
    /\ \E k, j \in 1..Len(before) :
          /\ before[k].tag = "h1" /\ ~IdPresent(before[k])
          /\ Links(dom[j]) # {}

\* C3: a heading of level 4, 5 or 6 carries no class and no link in any state,
\* with or without an id, after any number of runs
C3_Level456Untouched ==
    \A k \in 1..Len(dom) : Level456(dom[k]) => Untouched(dom[k])

C3_Witness ==
    /\ pc = "L13" /\ runs = 2
    /\ Len(dom) = 2
    /\ dom[1].tag = "h4" /\ dom[1].attrs = {<<"id", "intro">>}
    /\ Cardinality(Links(dom[2])) = 2

\* C4: a level 1-3 heading whose id attribute is the empty string is not
\* selected: it gets neither a link nor the has-anchor class
C4_EmptyIdNotSelected ==
    \A k \in 1..Len(dom) :
        (Level123(dom[k]) /\ dom[k].attrs = {<<"id", "">>}) => Untouched(dom[k])

\* C5: a run that starts on a page where no element matches the selector
\* never calls addAnchor, leaves the page as it was and reaches its return
C5_NoMatchNoChange ==
    (runs > 0 /\ \A k \in 1..Len(before) :
                    ~(Level123(before[k]) /\ IdPresent(before[k]))) =>
        /\ pc \in {"L11", "L12", "L13", "idle"}
        /\ SubSeq(dom, 1, Len(before)) = before
        /\ pc # "idle" => dom = before

C5_Witness ==
    /\ pc = "L13" /\ runs = 1
    /\ Len(before) = 2
    /\ before[1].tag = "h2" /\ ~IdPresent(before[1])
    /\ before[2].tag = "h4" /\ IdPresent(before[2])
    /\ dom = before

\* C6: after a run every heading the run selected carries has-anchor and its
\* first child, the inserted link, carries heading-anchor; a heading that no
\* selector matches carries no class, no heading carries heading-anchor, no
\* link carries has-anchor and no other child carries a class
C6_MarkerClasses ==
    /\ HasRun =>
          \A k \in 1..Len(before) :
              (Level123(before[k]) /\ IdPresent(before[k])) =>
                  /\ Contains(dom[k].classList, "has-anchor")
                  /\ dom[k].children # <<>>
                  /\ dom[k].children[1].tag = "a"
                  /\ dom[k].children[1].classList = <<"heading-anchor">>
    /\ \A k \in 1..Len(dom) :
          /\ ~(Level123(dom[k]) /\ IdPresent(dom[k])) => dom[k].classList = <<>>
          /\ ~Contains(dom[k].classList, "heading-anchor")
          /\ \A j \in 1..Len(dom[k].children) :
                /\ ~Contains(dom[k].children[j].classList, "has-anchor")
                /\ dom[k].children[j].tag # "a"
                      => dom[k].children[j].classList = <<>>

C6_Witness ==
    /\ pc = "L13"
    /\ Len(dom) = 2
    /\ dom[1].tag = "h2" /\ dom[1].attrs = {<<"id", "intro">>}
    /\ dom[1].classList = <<"has-anchor">>
    /\ dom[1].children[1].classList = <<"heading-anchor">>
    /\ dom[2].tag = "h4" /\ dom[2].attrs = {<<"id", "intro">>}
    /\ dom[2].classList = <<>>

\* C7: a run on a page that an earlier run processed puts one more link into
\* every heading it selects that already holds a link, so the page after the
\* run differs from the page before it
C7_SecondRunAddsAnchor ==
    HasRun =>
        \A k \in 1..Len(before) :
            (Level123(before[k]) /\ IdPresent(before[k])
                                 /\ Links(before[k]) # {}) =>
                /\ Cardinality(Links(dom[k])) = Cardinality(Links(before[k])) + 1
                /\ dom[k] # before[k]

C7_Witness ==
    /\ pc = "L13" /\ runs = 2
    /\ \E k \in 1..Len(before) :
          /\ Cardinality(Links(before[k])) = 1
          /\ Cardinality(Links(dom[k])) = 2

\* C8 as stated: a page view in which the script was evaluated ends with
\* exactly one invocation of addAnchors
C8_ExactlyOncePerPageView ==
    (phase = "ended" /\ evaluated) => runs = 1

\* C8 as amended: addAnchors is invoked once for every load dispatched on
\* window after the script was evaluated, and at no other step
C8_OncePerDispatch ==
    [][IF loads' = loads + 1 /\ evaluated
       THEN runs' = runs + 1
       ELSE runs' = runs]_vars

C8_Witness ==
    phase = "ended" /\ evaluated /\ loads = 2 /\ runs = 2

\* C9: as long as no load was dispatched on window the script is at rest, has
\* never invoked addAnchors, has created no element and no heading carries a
\* class or a link, whether or not the script was evaluated
C9_NothingBeforeLoad ==
    loads = 0 =>
        /\ pc = "idle"
        /\ runs = 0
        /\ created = 0
        /\ \A k \in 1..Len(dom) : Untouched(dom[k])

C9_Witness ==
    /\ phase = "ended" /\ evaluated /\ loads = 0
    /\ listeners = <<"addAnchors">>
    /\ Len(dom) = 1
    /\ dom[1].tag = "h2" /\ dom[1].attrs = {<<"id", "intro">>}
    /\ Untouched(dom[1])

RECURSIVE TotalLinks(_, _)
TotalLinks(d, k) ==
    IF k > Len(d) THEN 0 ELSE Cardinality(Links(d[k])) + TotalLinks(d, k + 1)

\* C10: within a run addAnchor is called on the selected headings in document
\* order, each once; at the end of the run every selected heading holds one
\* link more than before, every other heading as many as before, and the
\* elements the run created are as many as the headings it selected
C10_DocumentOrderOnePerHeading ==
    /\ \A i, j \in 1..Len(visited) : i < j => visited[i] < visited[j]
    /\ pc = "L13" =>
          /\ {visited[i] : i \in 1..Len(visited)}
                = {k \in 1..Len(before) :
                      Level123(before[k]) /\ IdPresent(before[k])}
          /\ \A k \in 1..Len(before) :
                Cardinality(Links(dom[k]))
                   = Cardinality(Links(before[k]))
                       + (IF Level123(before[k]) /\ IdPresent(before[k])
                          THEN 1 ELSE 0)
          /\ created - TotalLinks(before, 1) = Len(visited)
          /\ TotalLinks(dom, 1) = created

C10_Witness ==
    /\ pc = "L13"
    /\ visited = <<1, 2>>
    /\ created = 2
    /\ dom[1].children[1].nid = 1
    /\ dom[2].children[1].nid = 2

\* some headings the current run selected hold their new link, others not yet
PartlyProcessed ==
    \E k, j \in 1..Len(before) :
        /\ Level123(before[k]) /\ IdPresent(before[k])
        /\ Level123(before[j]) /\ IdPresent(before[j])
        /\ Cardinality(Links(dom[k])) > Cardinality(Links(before[k]))
        /\ Cardinality(Links(dom[j])) = Cardinality(Links(before[j]))

\* C11: every step of anything but the run itself (a heading added, a load
\* dispatched, the script evaluated, the page view ended) starts in a state
\* where the script is at rest and no run is half done
C11_RunToCompletion ==
    [][(\/ Len(dom') # Len(dom)
        \/ loads' # loads
        \/ evaluated' # evaluated
        \/ phase' # phase) => (pc = "idle" /\ ~PartlyProcessed)]_vars

C11_Witness ==
    /\ PartlyProcessed
    /\ pc = "L12"
    /\ Len(headings) = 2 /\ idx = 2

Nodes(seq) == {seq[k] : k \in 1..Len(seq)}

\* C12: a step of a run leaves the listeners, the page view and the number of
\* headings alone, keeps every heading's tag and attributes (its id), keeps
\* every node a heading holds, and changes no heading the selector does not
\* match
C12_OnlySelectedHeadingsChange ==
    [][pc # "idle" =>
         /\ listeners' = listeners /\ evaluated' = evaluated
         /\ phase' = phase /\ loads' = loads
         /\ Len(dom') = Len(dom)
         /\ \A k \in 1..Len(dom) :
               /\ dom'[k].tag = dom[k].tag
               /\ dom'[k].attrs = dom[k].attrs
               /\ Nodes(dom[k].children) \subseteq Nodes(dom'[k].children)
               /\ ~(Level123(dom[k]) /\ IdPresent(dom[k])) => dom'[k] = dom[k]]_vars

C12_Witness ==
    /\ pc = "L13"
    /\ Len(before) = 2
    /\ dom[1] # before[1]
    /\ dom[1].attrs = {<<"id", "intro">>}
    /\ dom[2] = before[2]
    /\ dom[2].attrs = {<<"id", "intro">>}

\* C14: after a run the children of a heading it selected are one new link
\* followed by the children the heading had when the run started, in the
\* same order
C14_ContentPreserved ==
    HasRun =>
        \A k \in 1..Len(before) :
            (Level123(before[k]) /\ IdPresent(before[k])) =>
                /\ Len(dom[k].children) = Len(before[k].children) + 1
                /\ dom[k].children[1].tag = "a"
                /\ dom[k].children[1] \notin Nodes(before[k].children)
                /\ \A j \in 1..Len(before[k].children) :
                      dom[k].children[j + 1] = before[k].children[j]

C14_Witness ==
    /\ pc = "L13" /\ runs = 2
    /\ \E k \in 1..Len(before) :
          /\ Len(before[k].children) = 2
          /\ Len(dom[k].children) = 3
          /\ dom[k].children[3] = TextNode
          /\ dom[k].children[2] = before[k].children[1]

\* C17: the list a run iterates is the selection made on the page as it was
\* when the run started, and a heading added after that start carries no class
\* and no link until load is dispatched again
C17_SnapshotAtRunStart ==
    /\ pc \in {"L12", "L13", "L3", "L4", "L5", "L6", "L7"} =>
          /\ \A i \in 1..Len(headings) : headings[i] \in 1..Len(before)
          /\ {headings[i] : i \in 1..Len(headings)}
                = {k \in 1..Len(before) :
                      Level123(before[k]) /\ IdPresent(before[k])}
    /\ \A k \in (Len(before) + 1)..Len(dom) : Untouched(dom[k])

C17_Witness ==
    /\ phase = "ended" /\ runs = 1 /\ loads = 1
    /\ Len(before) = 1 /\ Len(dom) = 2
    /\ Links(dom[1]) # {}
    /\ dom[2].tag = "h2" /\ dom[2].attrs = {<<"id", "intro">>}
    /\ Untouched(dom[2])

\* C18: two selected headings that carry the same id each get a link of their
\* own as first child, two different elements with the same href "#" + id
C18_DuplicateIds ==
    HasRun =>
        \A k, j \in 1..Len(before) :
            (/\ k # j
             /\ Level123(before[k]) /\ IdPresent(before[k])
             /\ Level123(before[j]) /\ IdPresent(before[j])
             /\ before[k].attrs = before[j].attrs) =>
                /\ Cardinality(Links(dom[k])) = Cardinality(Links(before[k])) + 1
                /\ Cardinality(Links(dom[j])) = Cardinality(Links(before[j])) + 1
                /\ dom[k].children[1].tag = "a"
                /\ dom[j].children[1].tag = "a"
                /\ dom[k].children[1].nid # dom[j].children[1].nid
                /\ dom[k].children[1].attrs
                      = {<<"href", "#" \o GetAttribute(before[k], "id")>>}
                /\ dom[j].children[1].attrs = dom[k].children[1].attrs

C18_Witness ==
    /\ pc = "L13"
    /\ Len(before) = 2
    /\ before[1].attrs = {<<"id", "intro">>}
    /\ before[2].attrs = {<<"id", "intro">>}
    /\ dom[1].children[1].attrs = {<<"href", "#intro">>}
    /\ dom[2].children[1].attrs = {<<"href", "#intro">>}

\* C20: in every state a heading that holds a link carries has-anchor; a
\* heading that carries has-anchor and holds no link is the one addAnchor is
\* working on, between its line 4 and its line 7
C20_LinkImpliesClass ==
    \A k \in 1..Len(dom) :
        /\ Links(dom[k]) # {} => Contains(dom[k].classList, "has-anchor")
        /\ (Contains(dom[k].classList, "has-anchor") /\ Links(dom[k]) = {}) =>
              (pc \in {"L5", "L6", "L7"} /\ heading = k)

C20_Witness ==
    /\ pc = "L6"
    /\ dom[heading].classList = <<"has-anchor">>
    /\ Links(dom[heading]) = {}

\* C16 as stated: once the script was evaluated after a load had been
\* dispatched (then fewer runs than loads exist, each later load starting a
\* run), addAnchors never runs and no heading ever gets a class or a link
C16_LateScriptNeverRuns ==
    (evaluated /\ runs < loads) =>
        (runs = 0 /\ \A k \in 1..Len(dom) : Untouched(dom[k]))

\* C16 as amended: when load has been dispatched and addAnchors has not run,
\* no step other than a further dispatch of load starts a run or touches a
\* heading; evaluating the script at that point only registers the listener
C16_LateScriptWaitsForNextLoad ==
    [][(loads > 0 /\ runs = 0 /\ loads' = loads) =>
          /\ runs' = 0
          /\ pc' = "idle"
          /\ created' = 0
          /\ \A k \in 1..Len(dom') : Untouched(dom'[k])]_vars

C16_Witness ==
    /\ phase = "ended" /\ evaluated
    /\ loads = MaxLoads /\ runs = 0
    /\ listeners = <<"addAnchors">>
    /\ Len(dom) = 1
    /\ dom[1].tag = "h2" /\ dom[1].attrs = {<<"id", "intro">>}
    /\ Untouched(dom[1])

\* C19: a run that has started comes to its end; while it runs the list it
\* iterates does not change, the headings visited so far are the first
\* elements of that list (each of them once), and no node a heading holds is
\* an element the selector could match
C19_RunTerminates ==
    /\ (pc = "L11" ~> pc = "idle")
    /\ [][(pc \in {"L12", "L13", "L3", "L4", "L5", "L6", "L7"})
             => (headings' = headings)]_vars
    /\ [](pc \in {"L12", "L13", "L3", "L4", "L5", "L6", "L7"} =>
             /\ idx \in 1..(Len(headings) + 1)
             /\ visited = SubSeq(headings, 1, idx - 1)
             /\ \A i, j \in 1..Len(visited) : i # j => visited[i] # visited[j]
             /\ pc = "L13" => visited = headings)
    /\ [](/\ ~Level123(anchor)
          /\ \A k \in 1..Len(dom) : \A j \in 1..Len(dom[k].children) :
                ~Level123(dom[k].children[j]))

C19_Witness ==
    /\ pc = "L13" /\ runs = 2
    /\ visited = <<1, 2>>
    /\ headings = <<1, 2>>
    /\ Cardinality(Links(dom[1])) = 2

\* C13: no name is ever bound on the global object; the step that evaluates
\* the script registers addAnchors as the one load listener and changes
\* nothing else; the script leaves its rest only by a dispatch of load, which
\* enters addAnchors, never by a call by name from other code
C13_OnlyEntryIsLoad ==
    /\ [](globals = {})
    /\ [][evaluated' # evaluated =>
             /\ listeners = <<>> /\ listeners' = <<"addAnchors">>
             /\ UNCHANGED <<dom, phase, loads, pc, script, runs, before,
                            globals>>]_vars
    /\ [][(pc = "idle" /\ pc' # "idle") =>
             (loads' = loads + 1 /\ pc' = "L11")]_vars

C13_Witness ==
    /\ phase = "ended" /\ evaluated
    /\ globals = {}
    /\ listeners = <<"addAnchors">>
    /\ loads = 0 /\ runs = 0
    /\ Len(dom) = 1 /\ dom[1].attrs = {<<"id", "intro">>} /\ Untouched(dom[1])

\* C15: the listener stays registered once the script is evaluated; after a
\* run, a heading the selector matches that was in the page for n dispatches
\* of load since the evaluation holds n links, they are its first n children,
\* the latest created first, and its class list holds has-anchor once
C15_OneAnchorPerDispatch ==
    /\ evaluated => listeners = <<"addAnchors">>
    /\ HasRun =>
          \A k \in 1..Len(dom) :
              (Level123(dom[k]) /\ IdPresent(dom[k])) =>
                  /\ Links(dom[k]) = 1..seen[k]
                  /\ \A i, j \in 1..seen[k] :
                        i < j => dom[k].children[i].nid > dom[k].children[j].nid
                  /\ dom[k].classList
                        = (IF seen[k] > 0 THEN <<"has-anchor">> ELSE <<>>)

C15_Witness ==
    /\ pc = "L13" /\ loads = 2
    /\ Len(dom) = 2
    /\ seen = <<2, 1>>
    /\ Links(dom[1]) = {1, 2} /\ dom[1].classList = <<"has-anchor">>
    /\ Links(dom[2]) = {1}

\* C21: every link a heading holds carries exactly the class heading-anchor
\* and exactly the attribute href = "#" + the heading's id, and has no
\* children; the element addAnchor is still preparing (lines 4 to 7) is not
\* yet a child of any heading
C21_LinkCompleteWhenAttached ==
    /\ \A k \in 1..Len(dom) : \A j \in 1..Len(dom[k].children) :
          dom[k].children[j].tag = "a" =>
              /\ dom[k].children[j].classList = <<"heading-anchor">>
              /\ \E p \in dom[k].attrs :
                    /\ p[1] = "id"
                    /\ dom[k].children[j].attrs = {<<"href", "#" \o p[2]>>}
              /\ dom[k].children[j].children = <<>>
    /\ pc \in {"L4", "L5", "L6", "L7"} =>
          \A k \in 1..Len(dom) : \A j \in 1..Len(dom[k].children) :
              dom[k].children[j].nid # anchor.nid

C21_Witness ==
    /\ pc = "L5"
    /\ anchor.tag = "a" /\ anchor.classList = <<>> /\ anchor.attrs = {}
    /\ Links(dom[heading]) = {1}
    /\ dom[heading].children[1].classList = <<"heading-anchor">>
    /\ dom[heading].children[1].attrs = {<<"href", "#intro">>}
    /\ dom[heading].children[1].nid # anchor.nid

TypeOK ==
    /\ Len(dom) <= MaxHeadings
    /\ loads <= MaxLoads
    /\ runs <= loads
    /\ pc \in {"idle", "L11", "L12", "L13", "L3", "L4", "L5", "L6", "L7"}
====
